---- MODULE Spec2Model ----
(***************************************************************************)
(* Model of the three Scipion protocol modules of the Cryoten plugin:      *)
(*   cryoten/protocols/protocol_cryoten.py      (CryotenPrefixEnhace)      *)
(*   cryoten/protocols/protocol_hell.py         (CryotenPrefixHelloWorld)  *)
(*   cryoten/protocols/protocol_hello_world.py  (CryotenPrefixHelloWorld)  *)
(* Each protocol inserts two steps, runShellCommandsStep and               *)
(* createOutputStep.  Text (paths, commands, messages, captured streams)   *)
(* is a sequence of one-character strings, so that os.path.join,           *)
(* os.path.basename, os.path.splitext, str.strip and the f-strings are     *)
(* computed character by character as Python computes them.                *)
(***************************************************************************)
EXTENDS Integers, Sequences, FiniteSets, TLC

\* ------------------------------------------------------------------------
\* Bounds of the model
\* ------------------------------------------------------------------------
\* longest file name of the input volume, in characters
MaxLen == 2
\* largest exit code of the tool command
MaxRc == 1

\* ------------------------------------------------------------------------
\* String literals of the source
\* ------------------------------------------------------------------------
\* command text up to the activation script path
CmdSource ==
    <<"\n"," "," "," "," "," "," "," "," "," "," "," "," "," "," "," "," ","s","o","u","r",
      "c","e"," ">>

\* command text between the activation script path and the tool directory
CmdActivateCd ==
    <<" ","&","&"," "," "," "," "," "," "," "," "," "," "," "," "," "," "," "," "," ","c",
      "o","n","d","a"," ","a","c","t","i","v","a","t","e"," ","c","r","y","o","t","e","n",
      "_","e","n","v"," ","&","&"," "," "," "," "," "," "," "," "," "," "," "," "," "," ",
      " "," "," ","c","d"," ">>

\* command text between the tool directory and the input path
CmdTool ==
    <<" ","&","&"," "," "," "," "," "," "," "," "," "," "," "," "," "," "," "," "," ","p",
      "y","t","h","o","n"," ","e","v","a","l",".","p","y"," ">>

\* separator between the input path and the output path
CmdSep ==
    <<" ">>

\* command text after the output path
CmdTail ==
    <<"\n"," "," "," "," "," "," "," "," "," "," "," "," ">>

StrEtc ==
    <<"e","t","c">>

StrProfileD ==
    <<"p","r","o","f","i","l","e",".","d">>

StrCondaSh ==
    <<"c","o","n","d","a",".","s","h">>

StrTildeScipion ==
    <<"~","/","s","c","i","p","i","o","n">>

StrCryotenRel ==
    <<"s","o","f","t","w","a","r","e","/","e","m","/","c","r","y","o","t","e","n","-","1",
      ".","0",".","0","/","c","r","y","o","t","e","n">>

StrOutput ==
    <<"o","u","t","p","u","t">>

StrMrc ==
    <<".","m","r","c">>

MsgCommand ==
    <<"C","o","m","m","a","n","d"," ","'">>

MsgFailedWith ==
    <<"'"," ","f","a","i","l","e","d"," ","w","i","t","h"," ","e","r","r","o","r",":"," ">>

MsgCondaBase ==
    <<"F","a","i","l","e","d"," ","t","o"," ","d","e","t","e","r","m","i","n","e"," ","c",
      "o","n","d","a"," ","b","a","s","e"," ","p","a","t","h",":"," ">>

MsgCondaPath ==
    <<"A","n"," ","e","r","r","o","r"," ","o","c","c","u","r","r","e","d"," ","w","h","i",
      "l","e"," ","d","e","t","e","r","m","i","n","i","n","g"," ","c","o","n","d","a"," ",
      "p","a","t","h",":"," ">>

MsgAnError ==
    <<"A","n"," ","e","r","r","o","r"," ","o","c","c","u","r","r","e","d",":"," ">>

MsgNotSet ==
    <<"O","u","t","p","u","t"," ","f","i","l","e"," ","p","a","t","h"," ","i","s"," ","n",
      "o","t"," ","s","e","t","."," ","E","n","s","u","r","e"," ","r","u","n","S","h","e",
      "l","l","C","o","m","m","a","n","d","s","S","t","e","p"," ","h","a","s"," ","b","e",
      "e","n"," ","e","x","e","c","u","t","e","d"," ","s","u","c","c","e","s","s","f","u",
      "l","l","y",".">>

MsgNoneGetFileName ==
    <<"'","N","o","n","e","T","y","p","e","'"," ","o","b","j","e","c","t"," ","h","a","s",
      " ","n","o"," ","a","t","t","r","i","b","u","t","e"," ","'","g","e","t","F","i","l",
      "e","N","a","m","e","'">>

MsgNoneGetSamplingRate ==
    <<"'","N","o","n","e","T","y","p","e","'"," ","o","b","j","e","c","t"," ","h","a","s",
      " ","n","o"," ","a","t","t","r","i","b","u","t","e"," ","'","g","e","t","S","a","m",
      "p","l","i","n","g","R","a","t","e","'">>

MsgNoConda ==
    <<"[","E","r","r","n","o"," ","2","]"," ","N","o"," ","s","u","c","h"," ","f","i","l",
      "e"," ","o","r"," ","d","i","r","e","c","t","o","r","y",":"," ","'","c","o","n","d",
      "a","'">>

PrnInput ==
    <<"I","n","p","u","t"," ","f","i","l","e"," ","p","a","t","h",":"," ">>

PrnFullInput ==
    <<"F","u","l","l"," ","i","n","p","u","t"," ","f","i","l","e"," ","p","a","t","h",":",
      " ">>

PrnInputName ==
    <<"I","n","p","u","t"," ","f","i","l","e"," ","n","a","m","e",":"," ">>

PrnScipion ==
    <<"S","c","i","p","i","o","n"," ","p","a","t","h",":"," ">>

PrnRunning ==
    <<"R","u","n","n","i","n","g"," ","c","o","m","m","a","n","d",":"," ">>

PrnOut ==
    <<"C","o","m","m","a","n","d"," ","o","u","t","p","u","t",":"," ">>

PrnErr ==
    <<"C","o","m","m","a","n","d"," ","e","r","r","o","r",":"," ">>

PrnSet ==
    <<"O","u","t","p","u","t"," ","f","i","l","e"," ","p","a","t","h"," ","s","e","t"," ",
      "t","o",":"," ">>

MsgDecodeA ==
    <<"'","u","t","f","-","8","'"," ","c","o","d","e","c"," ","c","a","n","'","t"," ","d",
      "e","c","o","d","e"," ","b","y","t","e"," ","0","x","f","f"," ","i","n"," ","p","o",
      "s","i","t","i","o","n"," ">>

MsgDecodeB ==
    <<":"," ","i","n","v","a","l","i","d"," ","s","t","a","r","t"," ","b","y","t","e">>

MsgShPrefix ==
    <<"/","b","i","n","/","b","a","s","h",":"," ","l","i","n","e"," ","2",":"," ">>

MsgShNoFile ==
    <<":"," ","N","o"," ","s","u","c","h"," ","f","i","l","e"," ","o","r"," ","d","i","r",
      "e","c","t","o","r","y","\n">>

\* the ASCII characters of code 32 to 95
AsciiTable ==
    <<" ","!","\"","#","$","%","&","'","(",")","*","+",",","-",".","/","0","1","2","3","4",
      "5","6","7","8","9",":",";","<","=",">","?","@","A","B","C","D","E","F","G","H","I",
      "J","K","L","M","N","O","P","Q","R","S","T","U","V","W","X","Y","Z","[","\\","]","^",
      "_">>

\* the ASCII characters of code 97 to 126
AsciiLower ==
    <<"a","b","c","d","e","f","g","h","i","j","k","l","m","n","o","p","q","r","s","t","u",
      "v","w","x","y","z","{","|","}","~">>

DigitChars ==
    <<"0","1","2","3","4","5","6","7","8","9">>

\* ------------------------------------------------------------------------
\* Python values
\* ------------------------------------------------------------------------
\* Python's None (a one-element sequence that is no text: every character
\* of a text has length one)
None == <<"None">>

\* no exception
NoError == [type |-> "NoError", msg |-> <<>>]

Error(t, m) == [type |-> t, msg |-> m]

\* ------------------------------------------------------------------------
\* str and os.path functions
\* ------------------------------------------------------------------------
Sep == "/"
ExtSep == "."
Whitespace == {" ", "\n", "\t"}

\* s[i:] with a 0-based Python index i
From(s, i) == SubSeq(s, i + 1, Len(s))

\* s[:i] with a 0-based Python index i
Upto(s, i) == SubSeq(s, 1, i)

\* str.rfind(ch): 0-based index of the last occurrence, -1 when absent
RFind(s, ch) ==
    LET hits == {i \in 1..Len(s) : s[i] = ch}
    IN  IF hits = {} THEN -1
        ELSE (CHOOSE i \in hits : \A j \in hits : j <= i) - 1

\* str.find(ch, start): 0-based index of the first occurrence at or after
\* start, -1 when absent
Find(s, ch, start) ==
    LET hits == {i \in (start + 1)..Len(s) : s[i] = ch}
    IN  IF hits = {} THEN -1
        ELSE (CHOOSE i \in hits : \A j \in hits : i <= j) - 1

StartsWith(s, ch) == Len(s) > 0 /\ s[1] = ch
EndsWith(s, ch) == Len(s) > 0 /\ s[Len(s)] = ch

\* str.strip()
Strip(s) ==
    LET keep == {i \in 1..Len(s) : s[i] \notin Whitespace}
    IN  IF keep = {} THEN <<>>
        ELSE SubSeq(s, CHOOSE i \in keep : \A j \in keep : i <= j,
                       CHOOSE i \in keep : \A j \in keep : j <= i)

\* str.rstrip('/')
RStripSep(s) ==
    LET keep == {i \in 1..Len(s) : s[i] # Sep}
    IN  IF keep = {} THEN <<>>
        ELSE SubSeq(s, 1, CHOOSE i \in keep : \A j \in keep : j <= i)

\* posixpath.join(a, b)
Join(a, b) ==
    IF StartsWith(b, Sep) THEN b
    ELSE IF a = <<>> \/ EndsWith(a, Sep) THEN a \o b
    ELSE a \o <<Sep>> \o b

\* posixpath.basename(p)
Basename(p) == From(p, RFind(p, Sep) + 1)

\* genericpath._splitext: index of the dot that starts the extension, -1
\* when p has none (a dot is no extension when only dots precede it in the
\* last component)
ExtIndex(p) ==
    LET sepIndex == RFind(p, Sep)
        dotIndex == RFind(p, ExtSep)
    IN  IF dotIndex > sepIndex
           /\ \E k \in (sepIndex + 1)..(dotIndex - 1) : p[k + 1] # ExtSep
        THEN dotIndex
        ELSE -1

\* posixpath.splitext(p)[0]
SplitextRoot(p) == IF ExtIndex(p) = -1 THEN p ELSE Upto(p, ExtIndex(p))

\* posixpath.expanduser(path), with HOME set in the environment
ExpandUser(path, home) ==
    IF ~StartsWith(path, "~") THEN path
    ELSE LET f == Find(path, Sep, 1)
             i == IF f < 0 THEN Len(path) ELSE f
             r == RStripSep(home) \o From(path, i)
         IN  IF r = <<>> THEN <<Sep>> ELSE r

\* the least index of s, from i on, of a whitespace character (ws) or of a
\* character that is none (~ws); Len(s) + 1 when there is none
FirstAt(s, i, ws) ==
    CHOOSE j \in i..(Len(s) + 1) :
        /\ j = Len(s) + 1 \/ (s[j] \in Whitespace) = ws
        /\ \A k \in i..(j - 1) : (s[k] \in Whitespace) # ws

\* the words of s from index i on; WordFrom takes the index b of the first
\* character of the next word, WordTo also the index e after its last
RECURSIVE WordsFrom(_, _), WordFrom(_, _), WordTo(_, _, _)
WordsFrom(s, i) == WordFrom(s, FirstAt(s, i, FALSE))
WordFrom(s, b) == IF b > Len(s) THEN <<>> ELSE WordTo(s, b, FirstAt(s, b, TRUE))
WordTo(s, b, e) == <<SubSeq(s, b, e - 1)>> \o WordsFrom(s, e)

\* the words of a shell command line: the maximal runs of characters that
\* are no whitespace, in order
Words(s) == WordsFrom(s, 1)

\* ------------------------------------------------------------------------
\* bytes.decode('utf-8')
\* ------------------------------------------------------------------------
\* the byte that is no valid UTF-8 in any position
BadByte == 255

\* the character of an ASCII code (newline, tab, 32 to 95 and 97 to 126)
Chr(b) ==
    IF b = 10 THEN "\n"
    ELSE IF b = 9 THEN "\t"
    ELSE IF b <= 95 THEN AsciiTable[b - 31]
    ELSE AsciiLower[b - 96]

\* str(n) of a natural number
RECURSIVE Str(_)
Str(n) == IF n < 10 THEN <<DigitChars[n + 1]>>
          ELSE Str(n \div 10) \o <<DigitChars[(n % 10) + 1]>>

\* bytes.decode('utf-8') of a stream of ASCII bytes and bad bytes: the text,
\* or UnicodeDecodeError at the first bad byte
Decode(bytes) ==
    LET bad == {i \in 1..Len(bytes) : bytes[i] >= 128}
    IN  IF bad = {}
        THEN [exc |-> NoError, text |-> [i \in 1..Len(bytes) |-> Chr(bytes[i])]]
        ELSE LET pos == (CHOOSE i \in bad : \A j \in bad : i <= j) - 1
             IN  [exc |-> Error("UnicodeDecodeError",
                                MsgDecodeA \o Str(pos) \o MsgDecodeB),
                  text |-> <<>>]

\* ------------------------------------------------------------------------
\* Objects of the host platform
\* ------------------------------------------------------------------------
\* sampling rate of a Volume() whose sampling rate was never set
NoRate == 0

\* what Pointer.get() returns: no object, or a volume
NoObject == [exists |-> FALSE, fileName |-> None, samplingRate |-> NoRate]
Volume(f, r) == [exists |-> TRUE, fileName |-> f, samplingRate |-> r]

\* ------------------------------------------------------------------------
\* State
\* ------------------------------------------------------------------------
VARIABLES
    module,     \* which protocol module runs
    self,       \* attributes of the protocol object
    project,    \* self.getProject().getPath()
    environ,    \* os.environ: SCIPION_BASE_PATH (None when unset) and HOME
    conda,      \* what running 'conda info --base' does on this machine
    tool,       \* what eval.py does: exit code and the bytes of its streams
    fs,         \* file system: does the activation script exist, does the
                \* parent directory of the output path exist
    calls,      \* the subprocess.run invocations made so far, in order: the
                \* arguments, whether a child process started, its exit code
    printed,    \* the texts printed so far, in order
    outputs,    \* the volumes registered with _defineOutputs, in order
    relations,  \* the source relations registered with _defineSourceRelation
    raised,     \* for each step, the exception it raised to the step
                \* executor (NoError before it ran and when it returned)
    pc          \* the step the executor runs next, "finished" or "failed"

world == <<module, project, environ, conda, tool, fs>>
vars == <<module, self, project, environ, conda, tool, fs, calls, printed,
          outputs, relations, raised, pc>>

Modules == {"protocol_cryoten", "protocol_hell", "protocol_hello_world"}

\* ------------------------------------------------------------------------
\* subprocess.run
\* ------------------------------------------------------------------------
\* the exit code recorded for an invocation that started no process
NoProcess == -1

\* subprocess.run(['conda', 'info', '--base'], ...): FileNotFoundError when
\* there is no conda executable, else the completed process
RunConda ==
    [call |-> [args |-> <<"conda", "info", "--base">>, shell |-> FALSE,
               started |-> conda.found,
               returncode |-> IF conda.found THEN conda.returncode ELSE NoProcess],
     exc |-> IF conda.found THEN NoError
             ELSE Error("FileNotFoundError", MsgNoConda),
     returncode |-> conda.returncode,
     stdout |-> conda.stdout,
     stderr |-> conda.stderr]

\* the bytes of a text of ASCII characters
Encode(text) ==
    [i \in 1..Len(text) |->
        IF text[i] = "\n" THEN 10
        ELSE CHOOSE b \in (32..95) \cup (97..126) : Chr(b) = text[i]]

\* subprocess.run(command, shell=True, executable='/bin/bash', ...): the
\* command is an && chain that starts with 'source <activation script>' on
\* its second line, so when that script does not exist bash reports it,
\* stops there with exit code 1 and eval.py does not run; else the result is
\* that of eval.py
RunBash(command) ==
    LET script == Words(command)[2]
        returncode == IF fs.activation THEN tool.returncode ELSE 1
    IN  [call |-> [args |-> command, shell |-> TRUE, started |-> TRUE,
                   returncode |-> returncode],
         exc |-> NoError,
         returncode |-> returncode,
         stdout |-> IF fs.activation THEN tool.stdout ELSE <<>>,
         stderr |-> IF fs.activation THEN tool.stderr
                    ELSE Encode(MsgShPrefix \o script \o MsgShNoFile)]

\* ------------------------------------------------------------------------
\* Helpers of the steps
\* ------------------------------------------------------------------------
\* get_conda_path (the same text in protocol_cryoten.py and
\* protocol_hell.py): the path of conda.sh, or the exception raised, with the
\* subprocess.run invocations made
get_conda_path ==
    LET result == RunConda
        out == Decode(result.stdout)
        err == Decode(result.stderr)
        base_path == Strip(out.text)
        inner ==
            IF result.exc # NoError THEN result.exc
            ELSE IF out.exc # NoError THEN out.exc
            ELSE IF result.returncode = 0 /\ base_path # <<>> THEN NoError
            ELSE IF err.exc # NoError THEN err.exc
            ELSE Error("Exception", MsgCondaBase \o err.text)
    IN  [calls |-> <<result.call>>,
         exc |-> IF inner = NoError THEN NoError
                 ELSE Error("Exception", MsgCondaPath \o inner.msg),
         value |-> IF inner = NoError
                   THEN Join(Join(Join(base_path, StrEtc), StrProfileD), StrCondaSh)
                   ELSE None]

\* run_command with a fault: the command is run a second time when the first
\* run is over
run_command_retry(command) ==
    LET process == RunBash(command)
        out == Decode(process.stdout)
        err == Decode(process.stderr)
    IN  [calls |-> <<process.call, process.call>>,
         exc |-> IF out.exc # NoError THEN out.exc
                 ELSE IF err.exc # NoError THEN err.exc
                 ELSE IF process.returncode # 0
                 THEN Error("Exception",
                            MsgCommand \o command \o MsgFailedWith \o err.text)
                 ELSE NoError,
         stdout |-> out.text,
         stderr |-> err.text]

\* run_command (the same text in the three modules): the decoded streams, or
\* the exception raised, with the subprocess.run invocation made
run_command(command) ==
    LET process == RunBash(command)
        out == Decode(process.stdout)
        err == Decode(process.stderr)
    IN  [calls |-> <<process.call>>,
         exc |-> IF out.exc # NoError THEN out.exc
                 ELSE IF err.exc # NoError THEN err.exc
                 ELSE IF process.returncode # 0
                 THEN Error("Exception",
                            MsgCommand \o command \o MsgFailedWith \o err.text)
                 ELSE NoError,
         stdout |-> out.text,
         stderr |-> err.text]

\* the f-string with a fault: the output path before the input path
Command_swapped(condaPath, toolDir, fullInputFilePath, outputPath) ==
    CmdSource \o condaPath \o CmdActivateCd \o toolDir \o CmdTool
        \o outputPath \o CmdSep \o fullInputFilePath \o CmdTail

\* the f-string that builds the command (the same text in the three modules)
Command(condaPath, toolDir, fullInputFilePath, outputPath) ==
    CmdSource \o condaPath \o CmdActivateCd \o toolDir \o CmdTool
        \o fullInputFilePath \o CmdSep \o outputPath \o CmdTail

\* os.getenv('SCIPION_BASE_PATH', os.path.expanduser('~/scipion'))
ScipionBasePath(env) ==
    IF env.SCIPION_BASE_PATH # None THEN env.SCIPION_BASE_PATH
    ELSE ExpandUser(StrTildeScipion, env.HOME)

\* os.path.join(scipion_base_path, 'software/em/cryoten-1.0.0/cryoten')
CryotenPath(env) == Join(ScipionBasePath(env), StrCryotenRel)

\* protocol_cryoten.py: the output path derived from the tool directory and
\* the name of the input file
OutputFilePath(cryotenPath, inputFilePath) ==
    LET inputFileName == Basename(inputFilePath)
        outputFileName == SplitextRoot(inputFileName) \o StrMrc
    IN  Join(Join(cryotenPath, StrOutput), outputFileName)

\* 'except Exception': the exception classes the handler catches (all that
\* the try block can raise are subclasses of Exception)
IsException(exc) ==
    exc.type \in {"Exception", "AttributeError", "FileNotFoundError",
                  "UnicodeDecodeError", "RuntimeError"}

\* the outcome of a try block: the exception that left it (NoError when it
\* ran to its end), the subprocess.run invocations and prints it made, and
\* the value of self.outputFilePath after it
Outcome(exc, c, p, ofp) ==
    [exc |-> exc, calls |-> c, printed |-> p, outputFilePath |-> ofp]

\* ------------------------------------------------------------------------
\* The try blocks of runShellCommandsStep
\* ------------------------------------------------------------------------
\* the try block of protocol_cryoten.py with a fault: self.outputFilePath is
\* assigned before the command is executed
TryBlock_cryoten_early ==
    LET volume == self.inputVolume
    IN  IF ~volume.exists
        THEN Outcome(Error("AttributeError", MsgNoneGetFileName), <<>>, <<>>,
                     self.outputFilePath)
        ELSE
        LET inputFilePath == volume.fileName
            fullInputFilePath == Join(project, inputFilePath)
            p1 == <<PrnInput \o inputFilePath, PrnFullInput \o fullInputFilePath>>
            cp == get_conda_path
        IN  IF cp.exc # NoError
            THEN Outcome(cp.exc, cp.calls, p1, self.outputFilePath)
            ELSE
            LET cryotenPath == CryotenPath(environ)
                outputFilePath == OutputFilePath(cryotenPath, inputFilePath)
                command == Command(cp.value, cryotenPath, fullInputFilePath,
                                   outputFilePath)
                p2 == p1 \o <<PrnInputName \o Basename(inputFilePath),
                              PrnSet \o outputFilePath, PrnRunning \o command>>
                rc == run_command(command)
            IN  IF rc.exc # NoError
                THEN Outcome(rc.exc, cp.calls \o rc.calls, p2, outputFilePath)
                ELSE Outcome(NoError, cp.calls \o rc.calls,
                             p2 \o <<PrnOut \o rc.stdout, PrnErr \o rc.stderr>>,
                             outputFilePath)

\* protocol_cryoten.py, lines 89-137
TryBlock_cryoten ==
    LET volume == self.inputVolume
    IN  IF ~volume.exists
        THEN Outcome(Error("AttributeError", MsgNoneGetFileName), <<>>, <<>>,
                     self.outputFilePath)
        ELSE
        LET inputFilePath == volume.fileName
            fullInputFilePath == Join(project, inputFilePath)
            p1 == <<PrnInput \o inputFilePath, PrnFullInput \o fullInputFilePath>>
            cp == get_conda_path
        IN  IF cp.exc # NoError
            THEN Outcome(cp.exc, cp.calls, p1, self.outputFilePath)
            ELSE
            LET cryotenPath == CryotenPath(environ)
                outputFilePath == OutputFilePath(cryotenPath, inputFilePath)
                command == Command(cp.value, cryotenPath, fullInputFilePath,
                                   outputFilePath)
                p2 == p1 \o <<PrnInputName \o Basename(inputFilePath),
                              PrnRunning \o command>>
                rc == run_command(command)
            IN  IF rc.exc # NoError
                THEN Outcome(rc.exc, cp.calls \o rc.calls, p2, self.outputFilePath)
                ELSE Outcome(NoError, cp.calls \o rc.calls,
                             p2 \o <<PrnOut \o rc.stdout, PrnErr \o rc.stderr,
                                     PrnSet \o outputFilePath>>,
                             outputFilePath)

\* protocol_hell.py, lines 71-111
TryBlock_hell ==
    LET volume == self.inputVolume
    IN  IF ~volume.exists
        THEN Outcome(Error("AttributeError", MsgNoneGetFileName), <<>>, <<>>,
                     self.outputFilePath)
        ELSE
        LET inputFilePath == volume.fileName
            fullInputFilePath == Join(project, inputFilePath)
            p1 == <<PrnInput \o inputFilePath, PrnFullInput \o fullInputFilePath>>
            cp == get_conda_path
        IN  IF cp.exc # NoError
            THEN Outcome(cp.exc, cp.calls, p1, self.outputFilePath)
            ELSE
            LET scipion_base_path == ScipionBasePath(environ)
                cryotenPath == CryotenPath(environ)
                command == Command(cp.value, cryotenPath, fullInputFilePath,
                                   self.outputFile)
                p2 == p1 \o <<PrnScipion \o scipion_base_path,
                              PrnRunning \o command>>
                rc == run_command(command)
            IN  IF rc.exc # NoError
                THEN Outcome(rc.exc, cp.calls \o rc.calls, p2, self.outputFilePath)
                ELSE Outcome(NoError, cp.calls \o rc.calls,
                             p2 \o <<PrnOut \o rc.stdout, PrnErr \o rc.stderr>>,
                             self.outputFilePath)

\* protocol_hello_world.py, lines 69-96
TryBlock_hello_world ==
    LET volume == self.inputVolume
    IN  IF ~volume.exists
        THEN Outcome(Error("AttributeError", MsgNoneGetFileName), <<>>, <<>>,
                     self.outputFilePath)
        ELSE
        LET inputFilePath == volume.fileName
            fullInputFilePath == Join(project, inputFilePath)
            command == Command(self.condaPath, self.projectPath,
                               fullInputFilePath, self.outputFile)
            p1 == <<PrnFullInput \o fullInputFilePath, PrnRunning \o command>>
            rc == run_command(command)
        IN  IF rc.exc # NoError
            THEN Outcome(rc.exc, rc.calls, p1, self.outputFilePath)
            ELSE Outcome(NoError, rc.calls,
                         p1 \o <<PrnOut \o rc.stdout, PrnErr \o rc.stderr>>,
                         self.outputFilePath)

\* ------------------------------------------------------------------------
\* Steps
\* ------------------------------------------------------------------------
\* the handler with a fault: it clears self.outputFilePath when it catches
\* an exception
TryExcept_clearing(t) ==
    LET caught == t.exc # NoError /\ IsException(t.exc)
        left == IF caught THEN NoError ELSE t.exc
    IN  /\ calls' = calls \o t.calls
        /\ printed' = printed \o t.printed
                        \o (IF caught THEN <<MsgAnError \o t.exc.msg>> ELSE <<>>)
        /\ self' = [self EXCEPT !.outputFilePath =
                        IF caught THEN <<>> ELSE t.outputFilePath]
        /\ raised' = [raised EXCEPT !.runShellCommandsStep = left]
        /\ pc' = IF left = NoError THEN "createOutputStep" ELSE "failed"
        /\ UNCHANGED <<world, outputs, relations>>

\* try: <block> except Exception as e: print(f"An error occurred: {e}").
\* An exception the handler catches is printed and the step returns; any
\* other leaves the step.  The step executor runs createOutputStep after a
\* step that returned and stops the run after a step that raised.
TryExcept(t) ==
    LET caught == t.exc # NoError /\ IsException(t.exc)
        left == IF caught THEN NoError ELSE t.exc
    IN  /\ calls' = calls \o t.calls
        /\ printed' = printed \o t.printed
                        \o (IF caught THEN <<MsgAnError \o t.exc.msg>> ELSE <<>>)
        /\ self' = [self EXCEPT !.outputFilePath = t.outputFilePath]
        /\ raised' = [raised EXCEPT !.runShellCommandsStep = left]
        /\ pc' = IF left = NoError THEN "createOutputStep" ELSE "failed"
        /\ UNCHANGED <<world, outputs, relations>>

\* CryotenPrefixEnhace.runShellCommandsStep
runShellCommandsStep_cryoten ==
    /\ module = "protocol_cryoten"
    /\ pc = "runShellCommandsStep"
    /\ TryExcept(TryBlock_cryoten)

\* protocol_hell.py, CryotenPrefixHelloWorld.runShellCommandsStep
runShellCommandsStep_hell ==
    /\ module = "protocol_hell"
    /\ pc = "runShellCommandsStep"
    /\ TryExcept(TryBlock_hell)

\* protocol_hello_world.py, CryotenPrefixHelloWorld.runShellCommandsStep
runShellCommandsStep_hello_world ==
    /\ module = "protocol_hello_world"
    /\ pc = "runShellCommandsStep"
    /\ TryExcept(TryBlock_hello_world)

\* self._defineOutputs(outputVolume=v); self._defineSourceRelation(
\* self.inputVolume, v): the volume becomes the attribute outputVolume and an
\* output of the protocol, and a source relation from the input pointer to
\* it is recorded
Register(v) ==
    /\ outputs' = Append(outputs, v)
    /\ relations' = relations \cup {[source |-> self.inputVolume, target |-> v]}
    /\ self' = [self EXCEPT !.outputVolume = v]
    /\ raised' = [raised EXCEPT !.createOutputStep = NoError]
    /\ pc' = "finished"

\* a step that raises: the executor records the exception and stops the run
Raise(exc) ==
    /\ raised' = [raised EXCEPT !.createOutputStep = exc]
    /\ pc' = "failed"
    /\ UNCHANGED <<self, outputs, relations>>

\* 'not self.outputFilePath': None and the empty text are false
Falsy(v) == v = None \/ v = <<>>

\* CryotenPrefixEnhace.createOutputStep
createOutputStep_cryoten ==
    /\ module = "protocol_cryoten"
    /\ pc = "createOutputStep"
    /\ IF Falsy(self.outputFilePath)
       THEN Raise(Error("RuntimeError", MsgNotSet))
       ELSE IF ~self.inputVolume.exists
       THEN Raise(Error("AttributeError", MsgNoneGetSamplingRate))
       ELSE Register(Volume(self.outputFilePath, self.inputVolume.samplingRate))
    /\ UNCHANGED <<world, calls, printed>>

\* protocol_hell.py, CryotenPrefixHelloWorld.createOutputStep
createOutputStep_hell ==
    /\ module = "protocol_hell"
    /\ pc = "createOutputStep"
    /\ Register(Volume(self.outputFile, NoRate))
    /\ UNCHANGED <<world, calls, printed>>

\* protocol_hello_world.py, CryotenPrefixHelloWorld.createOutputStep
createOutputStep_hello_world ==
    /\ module = "protocol_hello_world"
    /\ pc = "createOutputStep"
    /\ Register(Volume(self.outputFile, NoRate))
    /\ UNCHANGED <<world, calls, printed>>

\* ------------------------------------------------------------------------
\* Initial states: one protocol object right after construction, on one
\* machine
\* ------------------------------------------------------------------------
\* the characters of the input file names
Alphabet == {"/", ".", "a"}

\* the file names an input volume can have
FileNames == UNION {[1..n -> Alphabet] : n \in 0..MaxLen}

\* sampling rates of the input volumes
SamplingRates == {2}

\* what the pointer inputVolume can point to
InputVolumes == {NoObject} \cup {Volume(f, r) : f \in FileNames, r \in SamplingRates}

\* values of the string parameters of the forms
OutputFiles == {<<"/", "o", "/", "x", ".", "m">>, <<"y">>}
CondaPaths == {<<"/", "k", "/", "c", ".", "s", "h">>, <<"c">>}
ProjectPaths == {<<"/", "t">>}

\* paths of the Scipion project
Projects == {<<"/", "p">>}

\* os.environ
Environs ==
    {[SCIPION_BASE_PATH |-> <<"/", "s">>, HOME |-> <<"/", "h">>],
     [SCIPION_BASE_PATH |-> None, HOME |-> <<"/", "h">>],
     [SCIPION_BASE_PATH |-> None, HOME |-> <<"/">>]}

\* 'conda info --base': prints "/c\n"; prints an empty line; fails with
\* "err\n" on standard error; there is no conda executable
CondaOutcomes ==
    {[found |-> TRUE, returncode |-> 0, stdout |-> <<47, 99, 10>>, stderr |-> <<>>],
     [found |-> TRUE, returncode |-> 0, stdout |-> <<10>>, stderr |-> <<>>],
     [found |-> TRUE, returncode |-> 1, stdout |-> <<>>,
      stderr |-> <<101, 114, 114, 10>>],
     [found |-> FALSE, returncode |-> 0, stdout |-> <<>>, stderr |-> <<>>]}

\* eval.py: any exit code; prints "ok\n" or a byte that is no UTF-8; writes
\* nothing or "boom" to standard error
ToolOutcomes ==
    [returncode : 0..MaxRc,
     stdout : {<<111, 107, 10>>, <<BadByte>>},
     stderr : {<<>>, <<98, 111, 111, 109>>}]

\* __init__ and _defineParams: the attributes of a new protocol object (None
\* for the attributes the class does not define)
NewProtocol(m, volume, outputFile, condaPath, projectPath) ==
    [inputVolume |-> volume,
     outputFile |-> IF m = "protocol_cryoten" THEN None ELSE outputFile,
     condaPath |-> IF m = "protocol_hello_world" THEN condaPath ELSE None,
     projectPath |-> IF m = "protocol_hello_world" THEN projectPath ELSE None,
     outputFilePath |-> None,
     outputVolume |-> NoObject]

Init ==
    /\ module \in Modules
    /\ self \in {NewProtocol(module, v, o, c, p) :
                    v \in InputVolumes, o \in OutputFiles,
                    c \in CondaPaths, p \in ProjectPaths}
    /\ project \in Projects
    /\ environ \in Environs
    /\ conda \in CondaOutcomes
    /\ tool \in ToolOutcomes
    /\ fs \in [activation : BOOLEAN, outputDir : BOOLEAN]
    /\ calls = <<>>
    /\ printed = <<>>
    /\ outputs = <<>>
    /\ relations = {}
    /\ raised = [runShellCommandsStep |-> NoError, createOutputStep |-> NoError]
    /\ pc = "runShellCommandsStep"

\* _insertAllSteps: runShellCommandsStep, then createOutputStep
Next ==
    \/ runShellCommandsStep_cryoten
    \/ runShellCommandsStep_hell
    \/ runShellCommandsStep_hello_world
    \/ createOutputStep_cryoten
    \/ createOutputStep_hell
    \/ createOutputStep_hello_world

Spec == Init /\ [][Next]_vars

\* ------------------------------------------------------------------------
\* Vocabulary of the properties
\* ------------------------------------------------------------------------
\* runShellCommandsStep has run
AfterRun == pc # "runShellCommandsStep"

\* the run of the two steps is over
Ended == pc \in {"finished", "failed"}

\* the invocations that ran the tool command under /bin/bash
BashCalls == {i \in DOMAIN calls : calls[i].shell}

\* text contains part as a contiguous piece
Contains(text, part) ==
    \E i \in 0..(Len(text) - Len(part)) : SubSeq(text, i + 1, i + Len(part)) = part

\* the handler of runShellCommandsStep printed an error
ErrorLogged ==
    \E i \in DOMAIN printed :
        /\ Len(printed[i]) >= Len(MsgAnError)
        /\ SubSeq(printed[i], 1, Len(MsgAnError)) = MsgAnError

\* the input volume can be looked up
InputFound == self.inputVolume.exists

\* 'conda info --base' ran, exited 0 and printed a base path
CondaResolves ==
    /\ conda.found
    /\ conda.returncode = 0
    /\ \A i \in DOMAIN conda.stdout : conda.stdout[i] < 128
    /\ \E i \in DOMAIN conda.stdout : conda.stdout[i] \notin {9, 10, 32}

\* the path of the activation script is resolved: get_conda_path succeeds
\* (protocol_cryoten, protocol_hell), the parameter condaPath names an
\* existing script (protocol_hello_world)
ActivationResolves ==
    IF module = "protocol_hello_world" THEN fs.activation ELSE CondaResolves

\* the standard-error text captured from the child of the tool command
CapturedStderr(command) == Decode(RunBash(command).stderr).text

\* ------------------------------------------------------------------------
\* C1
\* ------------------------------------------------------------------------
\* C1: whenever the child process of the tool command exits with a non-zero
\* code, runShellCommandsStep raises an error to its caller whose message
\* contains the captured standard-error text unchanged.
C1_InvocationErrorRaised ==
    \A i \in BashCalls :
        calls[i].returncode # 0 =>
            /\ raised.runShellCommandsStep # NoError
            /\ Contains(raised.runShellCommandsStep.msg, CapturedStderr(calls[i].args))

\* ------------------------------------------------------------------------
\* C2
\* ------------------------------------------------------------------------
\* C2: an output volume is registered (_defineOutputs, _defineSourceRelation)
\* only if the tool command exited with code 0 before.
C2_RegisteredOnlyAfterSuccess ==
    (outputs # <<>> \/ relations # {}) =>
        \E i \in BashCalls : calls[i].returncode = 0

\* ------------------------------------------------------------------------
\* C3
\* ------------------------------------------------------------------------
\* C3: no run in which an error occurred during runShellCommandsStep ends
\* with both steps completed normally.
C3_ErrorFailsRun == ErrorLogged => pc # "finished"

\* ------------------------------------------------------------------------
\* C4
\* ------------------------------------------------------------------------
\* C4: when the activation script path cannot be resolved,
\* runShellCommandsStep fails with an error and no child process has been
\* started.
C4_NoProcessWhenUnresolved ==
    (AfterRun /\ InputFound /\ ~ActivationResolves) =>
        /\ raised.runShellCommandsStep # NoError
        /\ \A i \in DOMAIN calls : ~calls[i].started

\* ------------------------------------------------------------------------
\* C5
\* ------------------------------------------------------------------------
\* C5 as stated: one call of runShellCommandsStep makes exactly one
\* subprocess.run invocation on every path.
C5_ExactlyOneRun == AfterRun => Len(calls) = 1

\* C5 amended: one call of runShellCommandsStep makes no subprocess.run
\* invocation when the input lookup fails; else protocol_hello_world makes
\* exactly one (the tool command), and protocol_cryoten and protocol_hell
\* make 'conda info --base' first and then, only when get_conda_path
\* succeeded, the tool command: two invocations, or one.
C5_RunCount ==
    AfterRun =>
        IF ~InputFound THEN calls = <<>>
        ELSE IF module = "protocol_hello_world"
        THEN Len(calls) = 1 /\ calls[1].shell
        ELSE /\ Len(calls) = (IF CondaResolves THEN 2 ELSE 1)
             /\ ~calls[1].shell
             /\ Len(calls) = 2 => calls[2].shell

\* C5 witness: CryotenPrefixEnhace's step has run and made two invocations.
C5_Witness ==
    module = "protocol_cryoten" /\ pc = "createOutputStep" /\ Len(calls) = 2

\* ------------------------------------------------------------------------
\* C6
\* ------------------------------------------------------------------------
\* C6: the parent directory of the output path exists once the tool command
\* has been launched, the step having created it when it was missing.
C6_OutputDirCreated == BashCalls # {} => fs.outputDir

\* ------------------------------------------------------------------------
\* C7
\* ------------------------------------------------------------------------
\* C7: for a valid input volume, when the activation path resolves and the
\* tool command exits 0, runShellCommandsStep completes without error and
\* createOutputStep registers exactly one output volume, whose file name is
\* the output path passed to the tool on the command line, as derived from
\* the input volume.
C7_SuccessRegistersOutput ==
    \A i \in BashCalls :
        (Ended /\ InputFound /\ ActivationResolves /\ calls[i].returncode = 0) =>
            /\ ~ErrorLogged
            /\ raised.runShellCommandsStep = NoError
            /\ raised.createOutputStep = NoError
            /\ pc = "finished"
            /\ Len(outputs) = 1
            /\ outputs[1].fileName = Words(calls[i].args)[14]
            /\ relations = {[source |-> self.inputVolume, target |-> outputs[1]]}

\* ------------------------------------------------------------------------
\* C8
\* ------------------------------------------------------------------------
\* the text of a word
W_source == <<"s", "o", "u", "r", "c", "e">>
W_and == <<"&", "&">>
W_conda == <<"c", "o", "n", "d", "a">>
W_activate == <<"a", "c", "t", "i", "v", "a", "t", "e">>
W_env == <<"c", "r", "y", "o", "t", "e", "n", "_", "e", "n", "v">>
W_cd == <<"c", "d">>
W_python == <<"p", "y", "t", "h", "o", "n">>
W_eval == <<"e", "v", "a", "l", ".", "p", "y">>

\* the words of the command are, in order: source <activation>, conda
\* activate cryoten_env, cd <toolDir>, python eval.py <input> <output>
InOrder(command, activation, toolDir, input, output) ==
    Words(command) =
        <<W_source, activation, W_and, W_conda, W_activate, W_env, W_and,
          W_cd, toolDir, W_and, W_python, W_eval, input, output>>

\* the command the module builds for this protocol object and project in the
\* ambient environment env
CommandUnder(env) ==
    LET input == Join(project, self.inputVolume.fileName)
    IN  CASE module = "protocol_cryoten" ->
                Command(get_conda_path.value, CryotenPath(env), input,
                        OutputFilePath(CryotenPath(env), self.inputVolume.fileName))
          [] module = "protocol_hell" ->
                Command(get_conda_path.value, CryotenPath(env), input, self.outputFile)
          [] module = "protocol_hello_world" ->
                Command(self.condaPath, self.projectPath, input, self.outputFile)

\* the activation path, tool directory and output path of this run
ActivationPath ==
    IF module = "protocol_hello_world" THEN self.condaPath ELSE get_conda_path.value
ToolDirectory ==
    IF module = "protocol_hello_world" THEN self.projectPath ELSE CryotenPath(environ)
OutputPath ==
    IF module = "protocol_cryoten"
    THEN OutputFilePath(CryotenPath(environ), self.inputVolume.fileName)
    ELSE self.outputFile

\* C8 as stated: the command built is the same whatever the ambient
\* environment is (SCIPION_BASE_PATH set or unset, home directory), and has
\* the order source, conda activate, cd, tool with input before output.
C8_SameInAnyEnvironment ==
    \A i \in BashCalls :
        /\ \A env \in Environs : calls[i].args = CommandUnder(env)
        /\ InOrder(calls[i].args, ActivationPath, ToolDirectory,
                   Join(project, self.inputVolume.fileName), OutputPath)

\* C8 amended: the command has the order source <activation script>, conda
\* activate cryoten_env, cd <tool directory>, python eval.py <input path>
\* <output path>, where the input path is the project path joined with the
\* file name of the input volume and, in protocol_hello_world, the other
\* three are the parameters condaPath, projectPath and outputFile, so that
\* the command is a function of the parameters and the project path only;
\* in protocol_cryoten and protocol_hell the activation script is conda.sh
\* under the base that 'conda info --base' prints and the tool directory is
\* software/em/cryoten-1.0.0/cryoten under SCIPION_BASE_PATH or, when that
\* is unset, under ~/scipion (in protocol_cryoten the output path lies in
\* its directory output), so that the command varies with the environment.
C8_CommandOrder ==
    \A i \in BashCalls :
        InOrder(calls[i].args, ActivationPath, ToolDirectory,
                Join(project, self.inputVolume.fileName), OutputPath)

\* C8 witness: protocol_hello_world has launched its command while
\* SCIPION_BASE_PATH is unset.
C8_Witness ==
    /\ module = "protocol_hello_world"
    /\ BashCalls # {}
    /\ environ.SCIPION_BASE_PATH = None

\* ------------------------------------------------------------------------
\* C9
\* ------------------------------------------------------------------------
\* the step that runs is runShellCommandsStep
RunStep == pc = "runShellCommandsStep" /\ pc' # pc

\* C9 as stated: runShellCommandsStep leaves every attribute of the protocol
\* object as it was.
C9_NoAttributeWritten == [][RunStep => self' = self]_vars

\* C9 amended: runShellCommandsStep leaves every attribute as it was, but for
\* outputFilePath of CryotenPrefixEnhace, which the step sets to the output
\* path passed to the tool when the step reaches the end of its try block
\* (no error logged), and leaves as it was on every failure path.
C9_OnlyOutputFilePathWritten ==
    [][RunStep =>
        /\ self' = [self EXCEPT !.outputFilePath = self'.outputFilePath]
        /\ IF module = "protocol_cryoten" /\ ~ErrorLogged'
           THEN /\ BashCalls' # {}
                /\ \A i \in BashCalls' :
                      self'.outputFilePath = Words(calls'[i].args)[14]
           ELSE self'.outputFilePath = self.outputFilePath]_vars

\* C9 witness: CryotenPrefixEnhace's step has run and saved the output path.
C9_Witness ==
    /\ module = "protocol_cryoten"
    /\ pc = "createOutputStep"
    /\ self.outputFilePath # None

\* ------------------------------------------------------------------------
\* C10
\* ------------------------------------------------------------------------
\* C10: in CryotenPrefixEnhace, outputFilePath is set only if
\* runShellCommandsStep has run, get_conda_path succeeded and the tool
\* command exited 0; and when the run is over and the conda lookup or the
\* tool command failed, createOutputStep has raised RuntimeError and nothing
\* is registered.
C10_OutputFilePathOnlyAfterSuccess ==
    module = "protocol_cryoten" =>
        /\ self.outputFilePath # None =>
              /\ AfterRun
              /\ CondaResolves
              /\ \E i \in BashCalls : calls[i].returncode = 0
        /\ (Ended /\ (~CondaResolves \/ ~\E i \in BashCalls : calls[i].returncode = 0)) =>
              /\ raised.createOutputStep = Error("RuntimeError", MsgNotSet)
              /\ pc = "failed"
              /\ outputs = <<>>
              /\ relations = {}
              /\ self.outputVolume = NoObject

\* C10 witness: the tool command of CryotenPrefixEnhace exited non-zero and
\* createOutputStep raised RuntimeError.
C10_Witness ==
    /\ module = "protocol_cryoten"
    /\ pc = "failed"
    /\ \E i \in BashCalls : calls[i].returncode # 0
    /\ raised.createOutputStep.type = "RuntimeError"

====
